---------------------------- MODULE Spec2Model ----------------------------
(***************************************************************************)
(* Container Yard Management System (src/app.py).                          *)
(*                                                                         *)
(* The script is rerun from top to bottom on every user interaction.  Each *)
(* rerun first reloads the Record Store from container_data.csv (when the  *)
(* file exists) and then executes the handler of the selected menu page.   *)
(* One action of this module is one such rerun.                            *)
(*                                                                         *)
(* A table cell in memory is a tagged value: a text (k = "str"), a number  *)
(* (k = "num"; int64 and float64 carry the same numeric value), a calendar *)
(* date (k = "date"; datetime.date and midnight Timestamp denote the same  *)
(* day) or a missing value (k = "nan": NaN, NaT, None).  A cell of the CSV *)
(* file is the text written by to_csv.                                     *)
(***************************************************************************)
EXTENDS Integers, Sequences, FiniteSets, TLC

VARIABLES
    data,       \* st.session_state.data: the in-memory Record Store
    csvExists,  \* os.path.exists('container_data.csv')
    csv,        \* rows of container_data.csv (text cells), header excluded
    view,       \* what the last rerun rendered and which button triggered it
    entered     \* history: customer names the user typed into accepted records

vars == <<data, csvExists, csv, view, entered>>

---------------------------------------------------------------------------
(* Bounds of the model and inputs of the user.                             *)

MaxRecords == 2
MaxNow == 3
TicksPerDay == 2

CustomerInputs == {"", "Acme", "NA", "007"}
ContainerInputs == {"", "C1"}
ArrivalInputs == {0, 1}
DeliveryInputs == {1, 5}
NowInputs == 0..MaxNow

MaxDay == 9
IntRange == (0 - MaxDay)..MaxDay

---------------------------------------------------------------------------
(* Cells.                                                                  *)

NaN == [k |-> "nan", s |-> "", n |-> 0]
Str(s) == [k |-> "str", s |-> s, n |-> 0]
Num(n) == [k |-> "num", s |-> "", n |-> n]
Date(d) == [k |-> "date", s |-> "", n |-> d]

IsNa(c) == c.k = "nan"

---------------------------------------------------------------------------
(* Text forms written by to_csv and parsed by read_csv.                    *)

Digit == <<"0", "1", "2", "3", "4", "5", "6", "7", "8", "9">>

RECURSIVE NatText(_)
NatText(n) == IF n < 10 THEN Digit[n + 1]
              ELSE NatText(n \div 10) \o Digit[(n % 10) + 1]

SignedText(n) == IF n < 0 THEN "-" \o NatText(0 - n) ELSE NatText(n)

\* str(n) of an integer, tabulated over the numbers of the model.
IntTable == [n \in IntRange |-> SignedText(n)]
IntText(n) == IntTable[n]

\* ISO text of day number d, day 0 being 2024-01-01.
DateTable == [d \in 0..MaxDay |->
                "2024-01-" \o (IF d + 1 < 10 THEN "0" ELSE "") \o NatText(d + 1)]
DateText(d) == DateTable[d]

\* read_csv's default na_values.
NaStrings == {"", "NA", "N/A", "NULL", "NaN", "nan", "null", "n/a", "<NA>", "#N/A"}

\* Texts with leading zeros that the integer parser accepts.
ZeroPadded == {"007"}

IntLiterals == {IntTable[n] : n \in IntRange} \cup ZeroPadded

IsIntText(s) == s \in IntLiterals

TextToInt(s) == IF s = "007" THEN 7
                ELSE CHOOSE n \in IntRange : IntTable[n] = s

TextToDay(s) == CHOOSE d \in 0..MaxDay : DateTable[d] = s

---------------------------------------------------------------------------
(* save_data / load_data: DataFrame.to_csv and pandas.read_csv.            *)

\* The text to_csv writes for one cell (na_rep is the empty text).
CellText(c) == CASE c.k = "str" -> c.s
                 [] c.k = "num" -> IntText(c.n)
                 [] c.k = "date" -> DateText(c.n)
                 [] OTHER -> ""

ToCsv(d) == [i \in 1..Len(d) |->
               [customer_name |-> CellText(d[i].customer_name),
                container_id |-> CellText(d[i].container_id),
                arrival_date |-> CellText(d[i].arrival_date),
                delivery_date |-> CellText(d[i].delivery_date),
                days_to_deliver |-> CellText(d[i].days_to_deliver)]]

\* read_csv infers one dtype per column: a column whose non-missing texts
\* are all integer literals becomes numeric, any other column keeps texts.
ColumnIsNumeric(texts) == \A s \in texts : s \in NaStrings \/ IsIntText(s)

ParseText(s, numeric) == IF s \in NaStrings THEN NaN
                         ELSE IF numeric THEN Num(TextToInt(s))
                         ELSE Str(s)

\* parse_dates=['arrival_date', 'delivery_date']
ParseDate(s) == IF s \in NaStrings THEN NaN ELSE Date(TextToDay(s))

ReadCsv(rows) ==
    LET custNum == ColumnIsNumeric({rows[i].customer_name : i \in 1..Len(rows)})
        contNum == ColumnIsNumeric({rows[i].container_id : i \in 1..Len(rows)})
        daysNum == ColumnIsNumeric({rows[i].days_to_deliver : i \in 1..Len(rows)})
    IN  [i \in 1..Len(rows) |->
           [customer_name |-> ParseText(rows[i].customer_name, custNum),
            container_id |-> ParseText(rows[i].container_id, contNum),
            arrival_date |-> ParseDate(rows[i].arrival_date),
            delivery_date |-> ParseDate(rows[i].delivery_date),
            days_to_deliver |-> ParseText(rows[i].days_to_deliver, daysNum)]]

\* load_data(): the store is replaced by the file's content when the file
\* exists and is kept as it is otherwise.
LoadData(d, exists, rows) == IF exists THEN ReadCsv(rows) ELSE d

\* calculate_days(arrival, delivery); the script defines it and never calls it.
calculate_days(arrival, delivery) ==
    IF IsNa(delivery) THEN NaN ELSE Num(delivery.n - arrival.n)

---------------------------------------------------------------------------
(* Statistics Engine: groupby('customer_name')['days_to_deliver'].         *)

\* groupby drops the rows whose key is missing (dropna=True).
GroupKeys(d) == {d[i].customer_name : i \in 1..Len(d)} \ {NaN}

GroupRows(d, key) == {i \in 1..Len(d) : d[i].customer_name = key}

\* The rows of a group whose days_to_deliver is not missing.
ValidRows(d, key) == {i \in GroupRows(d, key) : ~IsNa(d[i].days_to_deliver)}

RECURSIVE SumDays(_, _)
SumDays(d, idx) == IF idx = {} THEN 0
                   ELSE LET i == CHOOSE j \in idx : TRUE
                        IN  d[i].days_to_deliver.n + SumDays(d, idx \ {i})

\* 'mean' skips missing values; the mean sum/cnt is kept as the pair, and
\* is undefined (NaN) when cnt = 0.
GroupMean(d, key) == [sum |-> SumDays(d, ValidRows(d, key)),
                      cnt |-> Cardinality(ValidRows(d, key))]

\* 'count' counts the values of the column that are not missing.
GroupCount(d, key) == Cardinality(ValidRows(d, key))

Undefined == [sum |-> 0, cnt |-> 0]
IsDefined(m) == m.cnt > 0

\* a < b for two means; a missing mean sorts last (na_position='last').
MeanLess(a, b) == /\ IsDefined(a)
                  /\ (~IsDefined(b) \/ a.sum * b.cnt < b.sum * a.cnt)

\* Order of the group keys (groupby sorts them): numbers by value, texts
\* by code point.
TextOrder == <<"007", "7", "Acme", "NA">>
TextRank(s) == CHOOSE r \in 1..Len(TextOrder) : TextOrder[r] = s
KeyLess(a, b) == IF a.k = "num" /\ b.k = "num" THEN a.n < b.n
                 ELSE IF a.k = "str" /\ b.k = "str" THEN TextRank(a.s) < TextRank(b.s)
                 ELSE a.k = "num"

\* sort_values('avg_delivery_days') over the rows in key order.
RECURSIVE SortRows(_, _)
SortRows(d, keys) ==
    IF keys = {} THEN <<>>
    ELSE LET first == CHOOSE k \in keys : \A o \in keys \ {k} :
                         \/ MeanLess(GroupMean(d, k), GroupMean(d, o))
                         \/ /\ ~MeanLess(GroupMean(d, o), GroupMean(d, k))
                            /\ KeyLess(k, o)
         IN  <<[customer_name |-> first,
                avg_delivery_days |-> GroupMean(d, first),
                record_count |-> GroupCount(d, first)]>>
             \o SortRows(d, keys \ {first})

CustomerStats(d) == SortRows(d, GroupKeys(d))

---------------------------------------------------------------------------
(* Placement Classifier.                                                   *)

Threshold == 3

Lower == "Lower Level (Easy Access)"
Upper == "Upper Level (Long-term Storage)"

\* The Timestamp of a parsed date is midnight of that day; the clock
\* datetime.today() is a tick count with TicksPerDay ticks per day.
Midnight(day) == day * TicksPerDay
CurrentDate(now) == now \div TicksPerDay

\* Variant of IsCurrent that also keeps a delivery at the clock's own instant.
IsCurrent_Inclusive(r, now) ==
    IsNa(r.delivery_date) \/ Midnight(r.delivery_date.n) >= now

\* delivery_date.isna() | (delivery_date > pd.to_datetime(datetime.today()))
IsCurrent(r, now) == IsNa(r.delivery_date) \/ Midnight(r.delivery_date.n) > now

CurrentContainers(d, now) == SelectSeq([i \in 1..Len(d) |-> i],
                                       LAMBDA i : IsCurrent(d[i], now))

\* merge(customer_stats, on='customer_name', how='left'): a row whose key
\* has no group gets a missing average.
CustomerAvg(d, key) == IF key \in GroupKeys(d) THEN GroupMean(d, key) ELSE Undefined

\* Variant of Placement that excludes the threshold itself.
Placement_Strict(avg) == IF IsDefined(avg) /\ avg.sum < Threshold * avg.cnt
                         THEN Lower ELSE Upper

\* lambda x: "Lower Level (Easy Access)" if x <= 3 else "Upper Level ..."
\* (a comparison with NaN is false).
Placement(avg) == IF IsDefined(avg) /\ avg.sum <= Threshold * avg.cnt
                  THEN Lower ELSE Upper

PlacementRows(d, now) ==
    LET cur == CurrentContainers(d, now)
    IN  [j \in 1..Len(cur) |->
           [row |-> cur[j],
            container_id |-> d[cur[j]].container_id,
            customer_name |-> d[cur[j]].customer_name,
            customer_avg_delivery |-> CustomerAvg(d, d[cur[j]].customer_name),
            placement |-> Placement(CustomerAvg(d, d[cur[j]].customer_name))]]

---------------------------------------------------------------------------
(* The reruns.                                                             *)

View(menu, clicked, msg, stats, placement, now, confirm) ==
    [menu |-> menu, clicked |-> clicked, msg |-> msg, stats |-> stats,
     placement |-> placement, now |-> now, confirmShown |-> confirm,
     customer_name |-> "", container_id |-> ""]

\* The Add New Record page after a press of "Add Record", with the two text
\* inputs as submitted.
AddView(customer_name, container_id, msg) ==
    [View("Add New Record", "Add Record", msg, <<>>, <<>>, 0, FALSE)
        EXCEPT !.customer_name = customer_name, !.container_id = container_id]

\* A record of the data model as the file holds it before the first run.
SeedFiles == {<<>>,
              <<[customer_name |-> "Acme", container_id |-> "C1",
                 arrival_date |-> DateText(0), delivery_date |-> "",
                 days_to_deliver |-> ""]>>}

Init == /\ data = <<>>
        /\ csvExists \in BOOLEAN
        /\ csv \in SeedFiles
        /\ (~csvExists => csv = <<>>)
        /\ view = View("none", "none", "none", <<>>, <<>>, 0, FALSE)
        /\ entered = {csv[i].customer_name : i \in 1..Len(csv)}

\* Variant of NewRecord that subtracts the dates the other way round.
NewRecord_SwappedDays(customer_name, container_id, arrival_date, delivery_date) ==
    [customer_name |-> Str(customer_name),
     container_id |-> Str(container_id),
     arrival_date |-> Date(arrival_date),
     delivery_date |-> Date(delivery_date),
     days_to_deliver |-> Num(arrival_date - delivery_date)]

\* The record built by the Add Record handler.
NewRecord(customer_name, container_id, arrival_date, delivery_date) ==
    [customer_name |-> Str(customer_name),
     container_id |-> Str(container_id),
     arrival_date |-> Date(arrival_date),
     delivery_date |-> Date(delivery_date),
     days_to_deliver |-> Num(delivery_date - arrival_date)]

\* pd.concat([data, new_record], ignore_index=True)
Concat(d, r) == Append(d, r)

\* Variant of AddRecord whose validation forgets container_id.
AddRecord_NoContainerCheck(customer_name, container_id, arrival_date, delivery_date) ==
    LET loaded == LoadData(data, csvExists, csv)
    IN  IF customer_name = ""
        THEN /\ data' = loaded
             /\ view' = AddView(customer_name, container_id, "error")
             /\ UNCHANGED <<csvExists, csv, entered>>
        ELSE /\ Len(loaded) < MaxRecords
             /\ data' = Concat(loaded, NewRecord(customer_name, container_id,
                                                 arrival_date, delivery_date))
             /\ csv' = ToCsv(data')
             /\ csvExists' = TRUE
             /\ entered' = entered \cup {customer_name}
             /\ view' = AddView(customer_name, container_id, "success")

\* Page "Add New Record" with the button "Add Record" pressed.
AddRecord(customer_name, container_id, arrival_date, delivery_date) ==
    LET loaded == LoadData(data, csvExists, csv)
    IN  IF customer_name = "" \/ container_id = ""
        THEN /\ data' = loaded
             /\ view' = AddView(customer_name, container_id, "error")
             /\ UNCHANGED <<csvExists, csv, entered>>
        ELSE /\ Len(loaded) < MaxRecords
             /\ data' = Concat(loaded, NewRecord(customer_name, container_id,
                                                 arrival_date, delivery_date))
             /\ csv' = ToCsv(data')
             /\ csvExists' = TRUE
             /\ entered' = entered \cup {customer_name}
             /\ view' = AddView(customer_name, container_id, "success")

SubmitAddRecord == \E c \in CustomerInputs, id \in ContainerInputs,
                      a \in ArrivalInputs, dl \in DeliveryInputs :
                        AddRecord(c, id, a, dl)

\* Page "Add New Record" rendered without a button press.
RenderAddRecord ==
    /\ data' = LoadData(data, csvExists, csv)
    /\ view' = View("Add New Record", "none", "none", <<>>, <<>>, 0, FALSE)
    /\ UNCHANGED <<csvExists, csv, entered>>

\* Page "View Customer Stats".
ViewCustomerStats ==
    LET loaded == LoadData(data, csvExists, csv)
    IN  /\ data' = loaded
        /\ view' = IF loaded = <<>>
                   THEN View("View Customer Stats", "none", "no data",
                             <<>>, <<>>, 0, FALSE)
                   ELSE View("View Customer Stats", "none", "stats",
                             CustomerStats(loaded), <<>>, 0, FALSE)
        /\ UNCHANGED <<csvExists, csv, entered>>

\* Page "Container Placement Suggestions" rendered at clock value now.
PlacementSuggestions(now) ==
    LET loaded == LoadData(data, csvExists, csv)
    IN  /\ data' = loaded
        /\ view' = IF loaded = <<>>
                   THEN View("Container Placement Suggestions", "none",
                             "no data", <<>>, <<>>, now, FALSE)
                   ELSE IF CurrentContainers(loaded, now) = <<>>
                   THEN View("Container Placement Suggestions", "none",
                             "no active containers", <<>>, <<>>, now, FALSE)
                   ELSE View("Container Placement Suggestions", "none",
                             "placement", <<>>, PlacementRows(loaded, now),
                             now, FALSE)
        /\ UNCHANGED <<csvExists, csv, entered>>

RenderPlacement == \E now \in NowInputs : PlacementSuggestions(now)

\* Page "Data Management".  clearAll and confirm are the values the two
\* st.button calls return in this rerun: a button returns True only in the
\* rerun its own press triggered.
DataManagement(clearAll, confirm) ==
    LET loaded == LoadData(data, csvExists, csv)
        clicked == IF clearAll THEN "Clear All Data"
                   ELSE IF confirm THEN "Confirm Delete" ELSE "none"
    IN  IF loaded = <<>>
        THEN /\ data' = loaded
             /\ view' = View("Data Management", clicked, "no data",
                             <<>>, <<>>, 0, FALSE)
             /\ UNCHANGED <<csvExists, csv, entered>>
        ELSE IF clearAll /\ confirm
        THEN /\ data' = <<>>
             /\ csv' = ToCsv(data')
             /\ csvExists' = TRUE
             /\ view' = View("Data Management", clicked, "cleared",
                             <<>>, <<>>, 0, TRUE)
             /\ UNCHANGED entered
        ELSE /\ data' = loaded
             /\ view' = View("Data Management", clicked,
                             IF clearAll THEN "warning" ELSE "current data",
                             <<>>, <<>>, 0, clearAll)
             /\ UNCHANGED <<csvExists, csv, entered>>

RenderDataManagement == DataManagement(FALSE, FALSE)

\* "Clear All Data" is on the page when the store rendered was not empty.
PressClearAllData ==
    /\ view.menu = "Data Management"
    /\ view.msg \in {"current data", "warning"}
    /\ DataManagement(TRUE, FALSE)

\* "Confirm Delete" is on the page only after a rerun in which
\* "Clear All Data" returned True.
PressConfirmDelete ==
    /\ view.menu = "Data Management"
    /\ view.confirmShown
    /\ DataManagement(FALSE, TRUE)

Next == \/ SubmitAddRecord
        \/ RenderAddRecord
        \/ ViewCustomerStats
        \/ RenderPlacement
        \/ RenderDataManagement
        \/ PressClearAllData
        \/ PressConfirmDelete

Spec == Init /\ [][Next]_vars

---------------------------------------------------------------------------
(* Properties.                                                             *)

Rows(d) == 1..Len(d)

\* The Record Store as the file holds it; a missing file is the empty store.
PersistedStore == IF csvExists THEN ReadCsv(csv) ELSE <<>>

AcceptedAdd == view.clicked = "Add Record" /\ view.msg = "success"

DaysExact(d) == \A i \in Rows(d) :
    ~IsNa(d[i].delivery_date) =>
        /\ d[i].days_to_deliver.k = "num"
        /\ d[i].days_to_deliver.n = d[i].delivery_date.n - d[i].arrival_date.n

\* C1: in every reachable state, every record whose delivery_date is present
\* has days_to_deliver equal to delivery_date minus arrival_date in days, in
\* the in-memory store and in the store as reloaded from the file.
C1_DaysExact == DaysExact(data) /\ DaysExact(PersistedStore)

\* A record with a 4-day delivery that has gone through a save and a reload.
C1_Witness == /\ view.msg = "stats"
              /\ \E i \in Rows(data) : /\ data[i].arrival_date = Date(1)
                                       /\ data[i].delivery_date = Date(5)
                                       /\ data[i].days_to_deliver = Num(4)

\* The mean the rule refers to: over all records of the store bearing the
\* customer's name (a record whose customer_name is missing bears no name).
RecordsOf(d, c) == {i \in Rows(d) : ~IsNa(c) /\ d[i].customer_name = c}
DeliveredOf(d, c) == {i \in RecordsOf(d, c) : ~IsNa(d[i].days_to_deliver)}
MeanAtMost(d, c, limit) ==
    /\ DeliveredOf(d, c) # {}
    /\ SumDays(d, DeliveredOf(d, c)) <= limit * Cardinality(DeliveredOf(d, c))

\* C2: every container listed by the Placement Classifier is placed on the
\* lower level if and only if the mean days_to_deliver over all records of
\* its customer is defined and at most 3; otherwise on the upper level.
C2_PlacementRule ==
    view.msg = "placement" =>
        \A j \in Rows(view.placement) :
            LET p == view.placement[j]
            IN  /\ p.placement \in {Lower, Upper}
                /\ p.placement = Lower <=> MeanAtMost(data, p.customer_name, 3)

\* A listed container whose customer's mean is exactly 3 over two records.
C2_Witness ==
    /\ view.msg = "placement"
    /\ \E j \in Rows(view.placement) :
          /\ view.placement[j].placement = Lower
          /\ view.placement[j].customer_avg_delivery = [sum |-> 6, cnt |-> 2]

\* A listed container whose customer has no delivered record.
C2_WitnessUndefined ==
    /\ view.msg = "placement"
    /\ \E j \in Rows(view.placement) :
          /\ view.placement[j].placement = Upper
          /\ ~IsNa(view.placement[j].customer_name)
          /\ DeliveredOf(data, view.placement[j].customer_name) = {}

Listed == {view.placement[j].row : j \in Rows(view.placement)}

\* C3: every record in the placement output has delivery_date absent or
\* strictly later than the current date, and no record whose delivery_date
\* is today or earlier is in the output.
C3_NoPastPlacement ==
    view.msg = "placement" =>
        \A i \in Rows(data) :
            /\ i \in Listed => \/ IsNa(data[i].delivery_date)
                               \/ data[i].delivery_date.n > CurrentDate(view.now)
            /\ (/\ ~IsNa(data[i].delivery_date)
                /\ data[i].delivery_date.n <= CurrentDate(view.now)) => i \notin Listed

\* The page rendered at midnight of a day on which a stored record is
\* delivered, with another record listed.
C3_Witness ==
    /\ view.msg = "placement"
    /\ view.now = Midnight(CurrentDate(view.now))
    /\ \E i \in Rows(data) : /\ data[i].delivery_date = Date(CurrentDate(view.now))
                             /\ i \notin Listed
    /\ Listed # {}

\* C4: the Statistics Engine output has exactly one row per distinct
\* customer_name entered by the user.
C4_OneRowPerCustomer ==
    view.msg = "stats" => Len(view.stats) = Cardinality(entered)

\* C5: a store produced by Add Record is reproduced by save_data followed by
\* load_data: same records, same order, same field values.
C5_RoundTrip == AcceptedAdd => LoadData(data, csvExists, csv) = data

\* C6: an Add Record submission with an empty customer_name or container_id
\* shows the error and leaves the file and the store (as loaded at the start
\* of the rerun) unchanged; a submission with both present is accepted and
\* appends one record.
C6_Validation ==
    [][view'.clicked = "Add Record" =>
          IF view'.customer_name = "" \/ view'.container_id = ""
          THEN /\ view'.msg = "error"
               /\ csvExists' = csvExists
               /\ csv' = csv
               /\ data' = LoadData(data, csvExists, csv)
          ELSE /\ view'.msg = "success"
               /\ Len(data') = Len(LoadData(data, csvExists, csv)) + 1
               /\ data'[Len(data')].customer_name = Str(view'.customer_name)
               /\ data'[Len(data')].container_id = Str(view'.container_id)
               /\ csvExists'
               /\ csv' = ToCsv(data')]_vars

\* A rejected submission over a store that holds a record.
C6_Witness == /\ view.clicked = "Add Record"
              /\ view.msg = "error"
              /\ data # <<>>
              /\ csv # <<>>

\* C7: after "Clear All Data" and then "Confirm Delete" the store is empty
\* and the empty store is in the file.
C7_ClearAvailable ==
    view.clicked = "Confirm Delete" =>
        /\ data = <<>>
        /\ csvExists
        /\ csv = <<>>

\* C8: at the end of every interaction the records of the file equal the
\* records of the in-memory store, a missing file being the empty store.
C8_Mirrored == view.menu # "none" => PersistedStore = data

\* C9: an accepted Add Record adds exactly one record after the stored ones
\* and leaves every stored record of the persisted table unchanged in value
\* and position; every other interaction leaves the stored records as they
\* are unless it is the full-store clear.
C9_AppendOnly ==
    [][IF view'.clicked = "Add Record" /\ view'.msg = "success"
       THEN /\ Len(csv') = Len(csv) + 1
            /\ \A i \in Rows(csv) : csv'[i] = csv[i]
       ELSE csv' = csv \/ view'.msg = "cleared"]_vars

\* C10: for every customer of the Statistics Engine output, avg_delivery_days
\* is the mean of the customer's present days_to_deliver values and
\* record_count is the number of the customer's records, absent
\* days_to_deliver included.
C10_StatsValues ==
    view.msg = "stats" =>
        \A j \in Rows(view.stats) :
            LET r == view.stats[j]
                mine == {i \in Rows(data) : data[i].customer_name = r.customer_name}
                delivered == {i \in mine : ~IsNa(data[i].days_to_deliver)}
            IN  /\ r.avg_delivery_days.cnt = Cardinality(delivered)
                /\ r.avg_delivery_days.sum = SumDays(data, delivered)
                /\ r.record_count = Cardinality(mine)

\* The part of C10 about the mean alone.
StatsMeanExact ==
    view.msg = "stats" =>
        \A j \in Rows(view.stats) :
            LET r == view.stats[j]
                delivered == DeliveredOf(data, r.customer_name)
            IN  /\ r.avg_delivery_days.cnt = Cardinality(delivered)
                /\ r.avg_delivery_days.sum = SumDays(data, delivered)

=============================================================================
